---- MODULE Spec2Model ----
(***************************************************************************)
(* Model of scripts/fetch_pulse_data.py: the Pulse data pipeline.          *)
(*                                                                         *)
(* Dates.  A date string "YYYY-MM-DD" is modelled by its day ordinal, the  *)
(* number of days since 2024-01-01 (a Monday).  For four-digit years the   *)
(* lexicographic order of the strings, which the code sorts and compares   *)
(* by, is the order of the ordinals, and strptime differences in days are  *)
(* differences of ordinals.  The calendar (years, leap years, ISO weeks)   *)
(* is computed from the ordinal.                                           *)
(*                                                                         *)
(* Values.  A number is modelled as an integer count of 1/Scale, the four  *)
(* decimals the adapters round to.  round(x, k) is round-half-to-even on   *)
(* the exact quotient.                                                     *)
(***************************************************************************)
EXTENDS Integers, Sequences, FiniteSets, TLC

VARIABLES
    index,           \* metrics.json "metrics": metric id -> record without history
    parts,           \* <category>.json "metrics": category -> (metric id -> record)
    pc,              \* position of the running command
    year,            \* datetime.now().year
    market,          \* what yfinance returns in this run: ticker -> Close series
    existing,        \* main: the records loaded from metrics.json
    result_metrics,  \* main: metric id -> record
    errors,          \* main: the failure list
    todo,            \* main: phase-1 metrics not yet evaluated
    full_history,    \* main: the local `history` each fresh record was built from
    dep_read,        \* main: the dependency entries each phase-2 metric looked up
    bf,              \* backfill_from_csv: the command in progress / last outcome
    cmds,            \* number of commands started so far
    arg,             \* input of the function under test
    ret              \* its result

vars == <<index, parts, pc, year, market, existing, result_metrics, errors,
          todo, full_history, dep_read, bf, cmds, arg, ret>>

-----------------------------------------------------------------------------
(* Numbers *)

Scale == 10000

None == -1000000

Abs(x) == IF x < 0 THEN -x ELSE x

\* The integer nearest to n/d (d > 0), ties to the even one: Python's round().
RoundHalfEven(n, d) ==
    LET q == n \div d
        r == n % d
    IN  IF 2 * r < d THEN q
        ELSE IF 2 * r > d THEN q + 1
        ELSE IF q % 2 = 0 THEN q ELSE q + 1

\* n/d for any sign of d (d # 0), rounded as above.
RoundQuot(n, d) == IF d > 0 THEN RoundHalfEven(n, d) ELSE RoundHalfEven(-n, -d)

EmptyDict == [k \in {} |-> 0]

Has(r, k) == k \in DOMAIN r

\* dict.get(k, default)
Get(r, k, default) == IF k \in DOMAIN r THEN r[k] ELSE default

\* dict.update / d[k] = v
Update(r, u) == [k \in DOMAIN r \cup DOMAIN u |-> IF k \in DOMAIN u THEN u[k] ELSE r[k]]

Range(s) == {s[i] : i \in DOMAIN s}

Dates(s) == {s[i][1] : i \in DOMAIN s}

\* {h[0]: h[1] for h in history}: the last point of a date wins.
DictOf(s) ==
    [d \in Dates(s) |->
        s[CHOOSE i \in DOMAIN s :
            s[i][1] = d /\ \A j \in DOMAIN s : s[j][1] = d => j <= i][2]]

\* The items of a dict by falling key: sorted(f.items(), reverse=True).
ItemsDescending(f) ==
    LET rank == [d \in DOMAIN f |-> Cardinality({x \in DOMAIN f : x > d})]
    IN  [i \in 1..Cardinality(DOMAIN f) |->
            LET d == CHOOSE x \in DOMAIN f : rank[x] = i - 1 IN <<d, f[d]>>]

\* sorted(d.items()) of a date-keyed dict: ascending by date.
SortedItems(f) ==
    LET rank == [d \in DOMAIN f |-> Cardinality({x \in DOMAIN f : x < d})]
    IN  [i \in 1..Cardinality(DOMAIN f) |->
            LET d == CHOOSE x \in DOMAIN f : rank[x] = i - 1 IN <<d, f[d]>>]

-----------------------------------------------------------------------------
(* Calendar *)

BaseYear == 2024

IsLeap(y) == (y % 4 = 0 /\ y % 100 # 0) \/ y % 400 = 0

DaysInYear(y) == IF IsLeap(y) THEN 366 ELSE 365

\* Ordinal of January 1 of year y (y >= BaseYear).
RECURSIVE YearStart(_)
YearStart(y) == IF y <= BaseYear THEN 0 ELSE YearStart(y - 1) + DaysInYear(y - 1)

RECURSIVE YearFrom(_, _)
YearFrom(d, y) == IF d < YearStart(y + 1) THEN y ELSE YearFrom(d, y + 1)

YearOf(d) == YearFrom(d, BaseYear)

\* 0 = Monday; ordinal 0 is a Monday.
Weekday(d) == d % 7

\* Monday of ISO week 1 of year y: the week that holds January 4.
IsoWeek1(y) == (YearStart(y) + 3) - Weekday(YearStart(y) + 3)

\* datetime.isocalendar()[:2]
IsoCalendar(d) ==
    LET y == YearOf(d)
    IN  IF d >= IsoWeek1(y + 1) THEN <<y + 1, 1>>
        ELSE IF d < IsoWeek1(y) THEN <<y - 1, ((d - IsoWeek1(y - 1)) \div 7) + 1>>
        ELSE <<y, ((d - IsoWeek1(y)) \div 7) + 1>>

-----------------------------------------------------------------------------
(* Ratio and basket ratio *)

\* pandas: x / y is NaN exactly for 0 / 0 (and dropna removes it).
IsNaN(x, y) == x = 0 /\ y = 0

\* The index (dates) of a series.
IndexOf(s) == [i \in DOMAIN s |-> s[i][1]]

\* Index.intersection, in the order of the left index.
RECURSIVE Common(_, _)
Common(ds, keep) ==
    IF ds = <<>> THEN <<>>
    ELSE IF ds[1] \in keep THEN <<ds[1]>> \o Common(Tail(ds), keep)
    ELSE Common(Tail(ds), keep)

\* A ratio cut off after 4 decimals instead of rounded.
RatioPointTruncated(fa, fb, d) == <<d, (fa[d] * Scale) \div fb[d]>>

RatioPoint(fa, fb, d) == <<d, RoundQuot(fa[d] * Scale, fb[d])>>

RECURSIVE RatioOver(_, _, _)
RatioOver(fa, fb, ds) ==
    IF ds = <<>> THEN <<>>
    ELSE IF IsNaN(fa[ds[1]], fb[ds[1]]) THEN RatioOver(fa, fb, Tail(ds))
    ELSE <<RatioPoint(fa, fb, ds[1])>> \o RatioOver(fa, fb, Tail(ds))

compute_ratio(ticker_a, ticker_b, mkt) ==
    LET a == mkt[ticker_a]
        b == mkt[ticker_b]
    IN  IF a = <<>> \/ b = <<>> THEN <<>>
        ELSE RatioOver(DictOf(a), DictOf(b), Common(IndexOf(a), Dates(b)))

\* Product of the anchor values of a basket, and the basket's sum of normalised
\* values at date d over that common denominator:
\*   sum(norm[t] for t in basket) = BasketNum / BasketDen.
RECURSIVE BasketDen(_, _, _)
BasketDen(basket, f, d0) ==
    IF basket = <<>> THEN 1
    ELSE f[basket[1]][d0] * BasketDen(Tail(basket), f, d0)

RECURSIVE BasketNum(_, _, _, _)
BasketNum(basket, f, d0, d) ==
    IF basket = <<>> THEN 0
    ELSE f[basket[1]][d] * BasketDen(Tail(basket), f, d0)
         + f[basket[1]][d0] * BasketNum(Tail(basket), f, d0, d)

\* The ratio of the first members' prices, without the normalisation to the
\* first common date.
BasketPointRaw(basket_a, basket_b, f, d0, d) ==
    <<d, RoundQuot(f[basket_a[1]][d] * Scale, f[basket_b[1]][d])>>

\* (basket_a_val / basket_b_val) at date d, rounded to 4 decimals.
BasketPoint(basket_a, basket_b, f, d0, d) ==
    <<d, RoundQuot(BasketNum(basket_a, f, d0, d) * BasketDen(basket_b, f, d0)
                       * Len(basket_b) * Scale,
                   BasketNum(basket_b, f, d0, d) * BasketDen(basket_a, f, d0)
                       * Len(basket_a))>>

RECURSIVE CommonAll(_, _, _)
CommonAll(tickers, mkt, acc) ==
    IF tickers = <<>> THEN acc
    ELSE CommonAll(Tail(tickers), mkt, Common(acc, Dates(mkt[tickers[1]])))

compute_basket_ratio(basket_a, basket_b, mkt) ==
    LET all_tickers == basket_a \o basket_b
        f == [t \in Range(all_tickers) |-> DictOf(mkt[t])]
        common == CommonAll(Tail(all_tickers), mkt, IndexOf(mkt[all_tickers[1]]))
    IN  IF \E t \in Range(all_tickers) : mkt[t] = <<>> THEN <<>>
        ELSE IF common = <<>> THEN <<>>
        ELSE [i \in 1..Len(common) |->
                 BasketPoint(basket_a, basket_b, f, common[1], common[i])]

-----------------------------------------------------------------------------
(* Downsampling *)

WeekLimit == 260

\* sorted(points, key=date) of points with distinct dates.
SortPoints(S) ==
    LET rank == [p \in S |-> Cardinality({q \in S : q[1] < p[1]})]
    IN  [i \in 1..Cardinality(S) |-> CHOOSE p \in S : rank[p] = i - 1]

\* The first point of each week kept instead of the last.
RECURSIVE WeeklyDictFirst(_, _, _)
WeeklyDictFirst(data, lo, hi) ==
    IF lo > hi THEN EmptyDict
    ELSE IF lo = hi THEN (IsoCalendar(data[lo][1]) :> data[lo])
    ELSE Update(WeeklyDictFirst(data, ((lo + hi) \div 2) + 1, hi),
                WeeklyDictFirst(data, lo, (lo + hi) \div 2))

\* The dict `weekly` after the points lo..hi in order: weekly[week_key] = point,
\* a later point replacing an earlier one of its week.
RECURSIVE WeeklyDict(_, _, _)
WeeklyDict(data, lo, hi) ==
    IF lo > hi THEN EmptyDict
    ELSE IF lo = hi THEN (IsoCalendar(data[lo][1]) :> data[lo])
    ELSE Update(WeeklyDict(data, lo, (lo + hi) \div 2),
                WeeklyDict(data, ((lo + hi) \div 2) + 1, hi))

downsample_weekly(data) ==
    IF Len(data) <= WeekLimit THEN data
    ELSE LET weekly == WeeklyDict(data, 1, Len(data))
         IN  SortPoints({weekly[k] : k \in DOMAIN weekly})

-----------------------------------------------------------------------------
(* Annotations *)

\* The first point of the whole history, whatever its year.
FirstFromStart(data, start) == IF data = <<>> THEN 0 ELSE 1

\* Index of the first point dated on or after `start`, 0 when there is none.
FirstFrom(data, start) ==
    IF \E i \in DOMAIN data : data[i][1] >= start
    THEN CHOOSE i \in DOMAIN data :
             /\ data[i][1] >= start
             /\ \A j \in 1..(i - 1) : data[j][1] < start
    ELSE 0

\* change_ytd_bp is in basis points, change_ytd_pct in tenths of a percent.
compute_ytd_change(data, mode, yr) ==
    IF data = <<>> THEN EmptyDict
    ELSE LET i == FirstFrom(data, YearStart(yr))
             start_val == IF i = 0 THEN None ELSE data[i][2]
             end_val == data[Len(data)][2]
         IN  IF i = 0 \/ start_val = 0 THEN EmptyDict
             ELSE IF mode = "bp"
                  THEN [change_ytd_bp |-> RoundHalfEven((end_val - start_val) * 100, Scale)]
                  ELSE [change_ytd_pct |->
                           RoundHalfEven((end_val - start_val) * 1000, Abs(start_val))]

RECURSIVE SumValues(_, _, _)
\* sum(values) over the points lo..hi.
SumValues(history, lo, hi) ==
    IF lo > hi THEN 0
    ELSE IF lo = hi THEN history[lo][2]
    ELSE SumValues(history, lo, (lo + hi) \div 2)
         + SumValues(history, ((lo + hi) \div 2) + 1, hi)

RECURSIVE SumSquares(_, _, _)
SumSquares(history, lo, hi) ==
    IF lo > hi THEN 0
    ELSE IF lo = hi THEN history[lo][2] * history[lo][2]
    ELSE SumSquares(history, lo, (lo + hi) \div 2)
         + SumSquares(history, ((lo + hi) \div 2) + 1, hi)

\* The least k >= from with x / sqrt(d) < k + 1/2  (x >= 0, d > 0).
RECURSIVE NearestUp(_, _, _)
NearestUp(x, d, from) ==
    IF (2 * from + 1) * (2 * from + 1) * d > 4 * x * x THEN from
    ELSE NearestUp(x, d, from + 1)

\* round(x / sqrt(d)) to the nearest integer, ties to the even one.
RoundOverSqrt(x, d) ==
    LET k == NearestUp(x, d, 0)
    IN  IF k >= 1 /\ (2 * k - 1) * (2 * k - 1) * d = 4 * x * x /\ k % 2 = 1
        THEN k - 1 ELSE k

TypeError == [exception |-> "TypeError"]

Raised(r) == Has(r, "exception")

\* zscore is in tenths.  With n points of sum S and sum of squares Q,
\*   (latest - mean) / std = (n*latest - S) / sqrt(n*Q - S*S).
\* elems is the Python type of the history's points: points loaded from JSON
\* or built by backfill are lists; a tuple fails the isinstance test and is
\* itself taken as the value, on which sum() raises.
compute_zscore(history, elems) ==
    IF Len(history) < 4 THEN EmptyDict
    ELSE IF elems # "list" THEN TypeError
    ELSE LET n == Len(history)
             S == SumValues(history, 1, n)
             Q == SumSquares(history, 1, n)
             num == n * history[n][2] - S
             D == n * Q - S * S
             k == RoundOverSqrt(10 * Abs(num), D)
             az == k
         IN  IF D = 0 THEN [zscore |-> 0, signal |-> "NORMAL"]
             ELSE [zscore |-> IF num < 0 THEN -k ELSE k,
                   signal |-> IF az >= 25 THEN "EXTREME"
                              ELSE IF az >= 15 THEN "ELEVATED" ELSE "NORMAL"]

Lookback == 8

compute_trend(history, elems) ==
    IF Len(history) < Lookback + 1 THEN EmptyDict
    ELSE IF elems # "list" THEN TypeError
    ELSE LET latest == history[Len(history)][2]
             past == history[Len(history) - Lookback][2]
         IN  IF past = 0 THEN [trend |-> "flat"]
             ELSE IF (latest - past) * 200 > Abs(past) THEN [trend |-> "up"]
             ELSE IF (latest - past) * 200 < -Abs(past) THEN [trend |-> "down"]
             ELSE [trend |-> "flat"]

-----------------------------------------------------------------------------
(* Derived metrics: nearest-date alignment of two dependency histories *)

Tolerance == 7

\* The latest of the dates at least distance.
ClosestLatest(other, d) ==
    CHOOSE c \in DOMAIN other :
        /\ \A x \in DOMAIN other : Abs(c - d) <= Abs(x - d)
        /\ \A x \in DOMAIN other : Abs(x - d) = Abs(c - d) => c >= x

\* min(other_dates, key=distance) over the ascending list: the first, hence
\* the earliest, of the dates at least distance.
Closest(other, d) ==
    CHOOSE c \in DOMAIN other :
        /\ \A x \in DOMAIN other : Abs(c - d) <= Abs(x - d)
        /\ \A x \in DOMAIN other : Abs(x - d) = Abs(c - d) => c <= x

DerivedValue(op, a_val, b_val) ==
    IF op = "subtract_bp"
    THEN RoundHalfEven((a_val - b_val) * 100, Scale \div 10) * (Scale \div 10)
    ELSE IF op = "subtract" THEN a_val - b_val
    ELSE IF b_val # 0 THEN RoundQuot(a_val * Scale, b_val) ELSE 0

\* The alignment without the tolerance test: every base date is kept.
AlignFromAll(hist_a, hist_b, op, ds) ==
    LET base_is_a == Cardinality(DOMAIN hist_a) <= Cardinality(DOMAIN hist_b)
        other == IF base_is_a THEN hist_b ELSE hist_a
    IN  [i \in DOMAIN ds |->
            <<ds[i], DerivedValue(op,
                                  IF base_is_a THEN hist_a[ds[i]]
                                  ELSE hist_a[Closest(other, ds[i])],
                                  IF base_is_a THEN hist_b[Closest(other, ds[i])]
                                  ELSE hist_b[ds[i]])>>]

\* The alignment with the operator applied as (base, other): the operands
\* change places when the second history is the base.
RECURSIVE AlignFromBaseFirst(_, _, _, _)
AlignFromBaseFirst(hist_a, hist_b, op, ds) ==
    IF ds = <<>> THEN <<>>
    ELSE LET base_is_a == Cardinality(DOMAIN hist_a) <= Cardinality(DOMAIN hist_b)
             base == IF base_is_a THEN hist_a ELSE hist_b
             other == IF base_is_a THEN hist_b ELSE hist_a
             d == ds[1]
             closest == Closest(other, d)
         IN  IF Abs(closest - d) > Tolerance
             THEN AlignFromBaseFirst(hist_a, hist_b, op, Tail(ds))
             ELSE <<(<<d, DerivedValue(op, base[d], other[closest])>>)>>
                  \o AlignFromBaseFirst(hist_a, hist_b, op, Tail(ds))

\* The loop over sorted(base.keys()); hist_a and hist_b are date -> value.
RECURSIVE AlignFrom(_, _, _, _)
AlignFrom(hist_a, hist_b, op, ds) ==
    IF ds = <<>> THEN <<>>
    ELSE LET base_is_a == Cardinality(DOMAIN hist_a) <= Cardinality(DOMAIN hist_b)
             other == IF base_is_a THEN hist_b ELSE hist_a
             d == ds[1]
             closest == Closest(other, d)
             a_val == IF base_is_a THEN hist_a[d] ELSE hist_a[closest]
             b_val == IF base_is_a THEN hist_b[closest] ELSE hist_b[d]
         IN  IF Abs(closest - d) > Tolerance
             THEN AlignFrom(hist_a, hist_b, op, Tail(ds))
             ELSE <<(<<d, DerivedValue(op, a_val, b_val)>>)>>
                  \o AlignFrom(hist_a, hist_b, op, Tail(ds))

derive_history(hist_a, hist_b, op) ==
    LET base == IF Cardinality(DOMAIN hist_a) <= Cardinality(DOMAIN hist_b)
                THEN hist_a ELSE hist_b
    IN  AlignFrom(hist_a, hist_b, op, IndexOf(SortedItems(base)))

-----------------------------------------------------------------------------
(* The registry.  The model keeps five of the metrics, one of each kind the   *)
(* claims involve, in the order of METRICS; name_zh and description are       *)
(* copied from the configuration exactly as name is and are left out.         *)

MetricOrder == <<"us_10y", "cn_10y", "cn_us_spread", "gsci_spy_ratio", "china_pmi">>

MetricIds == Range(MetricOrder)

METRICS ==
    [id \in MetricIds |->
        CASE id = "us_10y" ->
               [name |-> "US 10Y Yield", source_type |-> "yfinance", ticker |-> "^TNX",
                unit |-> "%", change_mode |-> "bp"]
          [] id = "cn_10y" ->
               [name |-> "China 10Y Yield", source_type |-> "manual", unit |-> "%",
                change_mode |-> "bp", note |-> "Monthly - PBOC / CEIC (no free API)"]
          [] id = "cn_us_spread" ->
               [name |-> "China-US 10Y Spread", source_type |-> "derived",
                derive_from |-> <<"cn_10y", "us_10y">>, derive_op |-> "subtract_bp",
                unit |-> "bp", change_mode |-> "bp",
                note |-> "Derived: (cn_10y - us_10y) x 100"]
          [] id = "gsci_spy_ratio" ->
               [name |-> "Commodities / S&P 500", source_type |-> "derived",
                components |-> <<"GSG", "SPY">>, unit |-> "ratio"]
          [] id = "china_pmi" ->
               [name |-> "China Mfg PMI", source_type |-> "manual", unit |-> "index",
                note |-> "NBS monthly"]]

CATEGORY_MAP ==
    << <<"rates", <<"us_10y", "cn_10y", "cn_us_spread">> >>,
       <<"china", <<"china_pmi">> >>,
       <<"equities", <<"gsci_spy_ratio">> >> >>

Categories == {CATEGORY_MAP[i][1] : i \in DOMAIN CATEGORY_MAP}

CategoryIds(cat) ==
    Range(CATEGORY_MAP[CHOOSE i \in DOMAIN CATEGORY_MAP : CATEGORY_MAP[i][1] = cat][2])

NoCategory == "None"

\* The first category that lists the metric, or None.
_category_for_metric(metric_id) ==
    IF \E i \in DOMAIN CATEGORY_MAP : metric_id \in Range(CATEGORY_MAP[i][2])
    THEN CATEGORY_MAP[CHOOSE i \in DOMAIN CATEGORY_MAP :
                          /\ metric_id \in Range(CATEGORY_MAP[i][2])
                          /\ \A j \in DOMAIN CATEGORY_MAP :
                                 metric_id \in Range(CATEGORY_MAP[j][2]) => i <= j][1]
    ELSE NoCategory

Deferred(config) == config.source_type = "derived" /\ Has(config, "derive_from")

DerivedIds == {id \in MetricIds : Deferred(METRICS[id])}

ManualIds == {id \in MetricIds : METRICS[id].source_type = "manual"}

Tickers == {"^TNX", "GSG", "SPY"}

-----------------------------------------------------------------------------
(* main: records *)

fetch_yfinance(ticker, mkt) == mkt[ticker]

\* The history a phase-1 metric is built from (before apply_transform, which
\* is the identity for every metric kept here: none has a transform).
SourceHistory(config, mkt) ==
    IF config.source_type = "yfinance" THEN fetch_yfinance(config.ticker, mkt)
    ELSE IF config.source_type = "derived" /\ Has(config, "components")
         THEN compute_ratio(config.components[1], config.components[2], mkt)
    ELSE IF config.source_type = "derived" /\ Has(config, "basket_a")
         THEN compute_basket_ratio(config.basket_a, config.basket_b, mkt)
    ELSE <<>>

SourceKey(config) ==
    IF Has(config, "ticker") THEN config.ticker
    ELSE IF Has(config, "series") THEN config.series
    ELSE IF Has(config, "components") THEN config.components[1]
    ELSE ""

\* "up" if history[-1] >= history[-2] else "down"; "flat" below two points.
RunDirection(history) ==
    IF Len(history) >= 2
    THEN IF history[Len(history)][2] >= history[Len(history) - 1][2] THEN "up" ELSE "down"
    ELSE "flat"

WithNote(m, config) == IF Has(config, "note") THEN Update(m, [note |-> config.note]) ELSE m

\* The record of a freshly computed metric.  The provenance string
\* "<kind>:<key>" is kept as the tuple of its parts.
FreshRecord(config, history, source, yr) ==
    WithNote(
        Update([name |-> config.name,
                value |-> history[Len(history)][2],
                direction |-> RunDirection(history),
                unit |-> config.unit,
                history |-> downsample_weekly(history),
                source |-> source],
               compute_ytd_change(history, Get(config, "change_mode", "pct"), yr)),
        config)

\* The record of a manual metric with no persisted data.
BlankManual(config) ==
    [name |-> config.name, value |-> None, direction |-> "flat", unit |-> config.unit,
     history |-> <<>>, source |-> <<"manual">>, note |-> Get(config, "note", "")]

-----------------------------------------------------------------------------
(* main: phase 1, lines 761-855 *)

\* A first loop in which a manual metric without a stored record gets its
\* placeholder only while the result map is still empty.
Phase1MapChained(rm, m, ex, mkt, yr) ==
    LET config == METRICS[m]
        history == SourceHistory(config, mkt)
    IN  IF Deferred(config) THEN rm
        ELSE IF config.source_type = "manual"
             THEN IF m \in DOMAIN ex THEN Update(rm, (m :> ex[m]))
                  ELSE IF DOMAIN rm = {} THEN Update(rm, (m :> BlankManual(config)))
                  ELSE rm
        ELSE IF history = <<>>
             THEN IF m \in DOMAIN ex THEN Update(rm, (m :> ex[m])) ELSE rm
        ELSE Update(rm, (m :> FreshRecord(config, history,
                                          <<config.source_type, SourceKey(config)>>, yr)))

\* result_metrics after the loop body for metric m.
Phase1Map(rm, m, ex, mkt, yr) ==
    LET config == METRICS[m]
        history == SourceHistory(config, mkt)
    IN  IF Deferred(config) THEN rm
        ELSE IF config.source_type = "manual"
             THEN Update(rm, (m :> IF m \in DOMAIN ex THEN ex[m] ELSE BlankManual(config)))
        ELSE IF history = <<>>
             THEN IF m \in DOMAIN ex THEN Update(rm, (m :> ex[m])) ELSE rm
        ELSE Update(rm, (m :> FreshRecord(config, history,
                                          <<config.source_type, SourceKey(config)>>, yr)))

\* Whether the loop body for m ends in "no data".
Phase1Failed(m, mkt) ==
    /\ ~Deferred(METRICS[m])
    /\ METRICS[m].source_type # "manual"
    /\ SourceHistory(METRICS[m], mkt) = <<>>

\* Whether the loop body for m builds a fresh record.
Phase1Fresh(m, mkt) ==
    /\ ~Deferred(METRICS[m])
    /\ METRICS[m].source_type # "manual"
    /\ SourceHistory(METRICS[m], mkt) # <<>>

\* A second pass that starts after the first iteration of the first loop.
AfterPhase1Early(rest) == "phase2"

\* The second pass starts when the first loop has run over every metric.
AfterPhase1(rest) == IF rest = {} THEN "phase2" ELSE "phase1"

-----------------------------------------------------------------------------
(* main: phase 2, lines 857-932 *)

Absent == [absent |-> TRUE]

\* result_metrics.get(src_id)
Lookup(rm, id) == IF id \in DOMAIN rm THEN rm[id] ELSE Absent

\* not src_m or not src_m.get("history")
SourceMissing(rm, src_id) ==
    \/ src_id \notin DOMAIN rm
    \/ ~Has(rm[src_id], "history")
    \/ rm[src_id].history = <<>>

DerivedHistory(rm, config) ==
    derive_history(DictOf(rm[config.derive_from[1]].history),
                   DictOf(rm[config.derive_from[2]].history),
                   config.derive_op)

\* Whether the loop body for the derived metric m ends in a failure.
Phase2Failed(rm, m) ==
    LET config == METRICS[m]
    IN  \/ \E i \in DOMAIN config.derive_from : SourceMissing(rm, config.derive_from[i])
        \/ DerivedHistory(rm, config) = <<>>

\* A second loop that stores an empty record for a derived metric it cannot
\* compute.
Phase2MapPlaceholder(rm, m, ex, yr) ==
    LET config == METRICS[m]
    IN  IF Phase2Failed(rm, m)
        THEN Update(rm, (m :> BlankManual(config)))
        ELSE Update(rm, (m :> FreshRecord(config, DerivedHistory(rm, config),
                                          <<"derived">> \o config.derive_from, yr)))

\* result_metrics after the loop body for the derived metric m.
Phase2Map(rm, m, ex, yr) ==
    LET config == METRICS[m]
    IN  IF Phase2Failed(rm, m)
        THEN IF m \in DOMAIN ex THEN Update(rm, (m :> ex[m])) ELSE rm
        ELSE Update(rm, (m :> FreshRecord(config, DerivedHistory(rm, config),
                                          <<"derived">> \o config.derive_from, yr)))

-----------------------------------------------------------------------------
(* main: annotation and output, lines 934-965 *)

\* The points of a record built in this run are tuples; those of a record
\* loaded from JSON are lists.
ElemType(m, fresh) == IF m \in fresh THEN "tuple" ELSE "list"

ZInfo(rm, m, fresh) == compute_zscore(Get(rm[m], "history", <<>>), ElemType(m, fresh))

TInfo(rm, m, fresh) == compute_trend(Get(rm[m], "history", <<>>), ElemType(m, fresh))

\* Whether the loop over result_metrics raises.
AnnotateRaises(rm, fresh) ==
    \E m \in DOMAIN rm : Raised(ZInfo(rm, m, fresh)) \/ Raised(TInfo(rm, m, fresh))

Annotated(rm, fresh) ==
    [m \in DOMAIN rm |-> Update(Update(rm[m], ZInfo(rm, m, fresh)), TInfo(rm, m, fresh))]

\* An index record that keeps the history.
SlimWithHistory(mdata) == mdata

Slim(mdata) == [k \in DOMAIN mdata \ {"history"} |-> mdata[k]]

\* Category files that each hold every record.
CategoryFilesUnfiltered(rm) == [cat \in Categories |-> rm]

CategoryFiles(rm) ==
    [cat \in Categories |-> [mid \in CategoryIds(cat) \cap DOMAIN rm |-> rm[mid]]]

IndexFile(rm) == [mid \in DOMAIN rm |-> Slim(rm[mid])]

-----------------------------------------------------------------------------
(* backfill_from_csv, lines 981-1124 *)

\* A CSV row is <<date field, value field>>; a field is <<"ok", n>> when it
\* parses, <<"blank">>, <<"comment">> (a date starting with #) or <<"bad">>.
RowValid(row) == row[1][1] = "ok" /\ row[2][1] = "ok"

\* The rows list after the reader loop: [date, value] of every valid row.
RECURSIVE ReadRows(_)
ReadRows(csv) ==
    IF csv = <<>> THEN <<>>
    ELSE IF RowValid(csv[1]) THEN <<(<<csv[1][1][2], csv[1][2][2]>>)>> \o ReadRows(Tail(csv))
    ELSE ReadRows(Tail(csv))

\* Insertion of p after every point that is not later: list.sort is stable.
RECURSIVE InsertByDate(_, _)
InsertByDate(sorted, p) ==
    IF sorted = <<>> THEN <<p>>
    ELSE IF sorted[Len(sorted)][1] <= p[1] THEN Append(sorted, p)
    ELSE Append(InsertByDate(SubSeq(sorted, 1, Len(sorted) - 1), p), sorted[Len(sorted)])

RECURSIVE SortRows(_, _)
\* rows.sort(key=lambda x: x[0]) of the first n rows.
SortRows(rows, n) ==
    IF n = 0 THEN <<>> ELSE InsertByDate(SortRows(rows, n - 1), rows[n])

\* A merge in which a stored value is kept when a row has its date.
RECURSIVE MergeRowsKeepStored(_, _, _)
MergeRowsKeepStored(stored, rows, n) ==
    IF n = 0 THEN [date_map |-> stored, new_count |-> 0, replaced_count |-> 0]
    ELSE LET before == MergeRowsKeepStored(stored, rows, n - 1)
             hit == rows[n][1] \in DOMAIN before.date_map
         IN  [date_map |-> IF hit THEN before.date_map
                           ELSE Update(before.date_map, (rows[n][1] :> rows[n][2])),
              new_count |-> before.new_count + (IF hit THEN 0 ELSE 1),
              replaced_count |-> before.replaced_count + (IF hit THEN 1 ELSE 0)]

\* A merge that counts every row as new.
RECURSIVE MergeRowsAllNew(_, _, _)
MergeRowsAllNew(stored, rows, n) ==
    IF n = 0 THEN [date_map |-> stored, new_count |-> 0, replaced_count |-> 0]
    ELSE LET before == MergeRowsAllNew(stored, rows, n - 1)
         IN  [date_map |-> Update(before.date_map, (rows[n][1] :> rows[n][2])),
              new_count |-> before.new_count + 1,
              replaced_count |-> before.replaced_count]

\* The merge loop over the first n rows, from the stored date_map.
RECURSIVE MergeRows(_, _, _)
MergeRows(stored, rows, n) ==
    IF n = 0 THEN [date_map |-> stored, new_count |-> 0, replaced_count |-> 0]
    ELSE LET before == MergeRows(stored, rows, n - 1)
             hit == rows[n][1] \in DOMAIN before.date_map
         IN  [date_map |-> Update(before.date_map, (rows[n][1] :> rows[n][2])),
              new_count |-> before.new_count + (IF hit THEN 0 ELSE 1),
              replaced_count |-> before.replaced_count + (IF hit THEN 1 ELSE 0)]

\* "flat" unless the last point is above ("up") or below ("down") the one before.
BackfillDirection(history) ==
    IF Len(history) >= 2
    THEN LET prev == history[Len(history) - 1][2]
             curr == history[Len(history)][2]
         IN  IF curr > prev THEN "up" ELSE IF curr < prev THEN "down" ELSE "flat"
    ELSE "flat"

\* metric_obj, built from the merged history only.
BackfillRecord(config, history, yr) ==
    Update(Update(Update(
        [name |-> config.name,
         value |-> history[Len(history)][2],
         direction |-> BackfillDirection(history),
         unit |-> config.unit,
         history |-> history,
         source |-> <<"manual">>,
         note |-> Get(config, "note", "")],
        compute_ytd_change(history, Get(config, "change_mode", "pct"), yr)),
        compute_zscore(history, "list")),
        compute_trend(history, "list"))

\* The checks without the one that the metric is manual.
BackfillCheckAnySource(metric_id, csv) ==
    IF metric_id \notin MetricIds THEN "unknown metric"
    ELSE IF _category_for_metric(metric_id) = NoCategory THEN "no category"
    ELSE IF ReadRows(csv) = <<>> THEN "no valid rows"
    ELSE "ok"

\* Why the command exits before reading the category file, or "ok".
BackfillCheck(metric_id, csv) ==
    IF metric_id \notin MetricIds THEN "unknown metric"
    ELSE IF METRICS[metric_id].source_type # "manual" THEN "not manual"
    ELSE IF _category_for_metric(metric_id) = NoCategory THEN "no category"
    ELSE IF ReadRows(csv) = <<>> THEN "no valid rows"
    ELSE "ok"

\* The merge of the valid rows into what the category file holds for the metric.
BackfillMerge(files, metric_id, csv) ==
    LET rows == SortRows(ReadRows(csv), Len(ReadRows(csv)))
        data == files[_category_for_metric(metric_id)]
        stored == Get(Get(data, metric_id, EmptyDict), "history", <<>>)
        merged == MergeRows(DictOf(stored), rows, Len(rows))
    IN  [history |-> SortedItems(merged.date_map),
         new_count |-> merged.new_count,
         replaced_count |-> merged.replaced_count]

\* A write that updates the stored record of the metric with the new fields
\* instead of replacing it.
BackfillWriteUpdating(files, metric_id, csv, yr) ==
    LET merged == BackfillMerge(files, metric_id, csv)
        cat_id == _category_for_metric(metric_id)
        metric_obj == BackfillRecord(METRICS[metric_id], merged.history, yr)
    IN  [files EXCEPT ![cat_id] =
            Update(@, (metric_id :> Update(Get(@, metric_id, EmptyDict), metric_obj)))]

\* A write of a category file that holds the target metric only.
BackfillWriteAlone(files, metric_id, csv, yr) ==
    LET merged == BackfillMerge(files, metric_id, csv)
        cat_id == _category_for_metric(metric_id)
        metric_obj == BackfillRecord(METRICS[metric_id], merged.history, yr)
    IN  [files EXCEPT ![cat_id] = (metric_id :> metric_obj)]

\* The category files after data["metrics"][metric_id] = metric_obj and the
\* write of the metric's category file.
BackfillWrite(files, metric_id, csv, yr) ==
    LET merged == BackfillMerge(files, metric_id, csv)
        cat_id == _category_for_metric(metric_id)
        metric_obj == BackfillRecord(METRICS[metric_id], merged.history, yr)
    IN  [files EXCEPT ![cat_id] = Update(@, (metric_id :> metric_obj))]

-----------------------------------------------------------------------------
(* Inputs *)

\* Commands in one behaviour.
MaxCommands == 3

\* n consecutive days from `start`, values cycling with stride k.
Daily(start, n, k) == [i \in 1..n |-> <<start + i - 1, 1 + ((i * k) % 3)>>]

NoMarket == [t \in Tickers |-> <<>>]

\* What yfinance returns in one run: per ticker nothing (no data, or a fault,
\* which the adapter turns into []) or a date-ascending series.
Markets ==
    { NoMarket,
      [NoMarket EXCEPT !["^TNX"] = Daily(398, 2, 1)],
      [NoMarket EXCEPT !["^TNX"] = Daily(397, 3, 2), !["GSG"] = Daily(398, 2, 1),
                       !["SPY"] = Daily(397, 3, 2)],
      [NoMarket EXCEPT !["GSG"] = Daily(397, 3, 1), !["SPY"] = Daily(398, 2, 2)],
      [NoMarket EXCEPT !["^TNX"] = Daily(395, 5, 1), !["SPY"] = Daily(398, 2, 1)] }

Years == {BaseYear, BaseYear + 1}

Row(d, v) == <<(<<"ok", d>>), <<"ok", v>>>>

\* The CSV files a backfill may be given.
CsvFiles ==
    { <<Row(350, 3)>>,
      <<Row(400, 5), Row(350, 4)>>,
      <<Row(350, 3), <<(<<"bad">>), <<"ok", 3>>>>, Row(350, 5)>>,
      <<(<<(<<"ok", 400>>), <<"blank">>>>), <<(<<"comment">>), <<"ok", 3>>>>>> }

BackfillTargets == MetricIds \cup {"nope"}

NoBackfill ==
    [status |-> "none", metric_id |-> "", csv |-> <<>>, new_count |-> 0,
     replaced_count |-> 0]

NoArg == <<>>

-----------------------------------------------------------------------------
(* The commands *)

Stopped == pc \in {"idle", "done", "crashed", "fatal"}

\* No file written yet, no command started.
NoFiles ==
    /\ index = EmptyDict
    /\ parts = [cat \in Categories |-> EmptyDict]
    /\ market = NoMarket
    /\ existing = EmptyDict
    /\ result_metrics = EmptyDict
    /\ errors = <<>>
    /\ todo = {}
    /\ full_history = EmptyDict
    /\ dep_read = EmptyDict
    /\ bf = NoBackfill
    /\ cmds = 0

Init ==
    /\ NoFiles
    /\ pc = "idle"
    /\ year = BaseYear + 1
    /\ arg = NoArg
    /\ ret = NoArg

\* main, lines 739-759: load metrics.json, start the first loop.
StartRun ==
    /\ Stopped
    /\ cmds < MaxCommands
    /\ cmds' = cmds + 1
    /\ pc' = "phase1"
    /\ market' \in Markets
    /\ existing' = index
    /\ result_metrics' = EmptyDict
    /\ errors' = <<>>
    /\ todo' = MetricIds \ DerivedIds
    /\ full_history' = EmptyDict
    /\ dep_read' = EmptyDict
    /\ bf' = NoBackfill
    /\ UNCHANGED <<index, parts, year, arg, ret>>

\* One iteration of the first loop.  The code takes the metrics in the order
\* of METRICS; the model takes them in any order.  The derived metrics, which
\* the first loop only skips, are left out of todo.
Phase1Step(m) ==
    /\ pc = "phase1"
    /\ m \in todo
    /\ result_metrics' = Phase1Map(result_metrics, m, existing, market, year)
    /\ errors' = IF Phase1Failed(m, market) THEN Append(errors, m) ELSE errors
    /\ full_history' = IF Phase1Fresh(m, market)
                       THEN Update(full_history, (m :> SourceHistory(METRICS[m], market)))
                       ELSE full_history
    /\ todo' = todo \ {m}
    /\ pc' = AfterPhase1(todo \ {m})
    /\ UNCHANGED <<index, parts, year, market, existing, dep_read, bf, cmds, arg, ret>>

\* One iteration of the second loop, for a derived metric.
Phase2Step(m) ==
    /\ pc = "phase2"
    /\ m \in DerivedIds \ DOMAIN dep_read
    /\ dep_read' = Update(dep_read,
                          (m :> [i \in DOMAIN METRICS[m].derive_from |->
                                    Lookup(result_metrics, METRICS[m].derive_from[i])]))
    /\ result_metrics' = Phase2Map(result_metrics, m, existing, year)
    /\ errors' = IF Phase2Failed(result_metrics, m) THEN Append(errors, m) ELSE errors
    /\ full_history' = IF Phase2Failed(result_metrics, m) THEN full_history
                       ELSE Update(full_history,
                                   (m :> DerivedHistory(result_metrics, METRICS[m])))
    /\ pc' = IF DerivedIds \ DOMAIN dep_read = {m} THEN "annotate" ELSE "phase2"
    /\ UNCHANGED <<index, parts, year, market, existing, todo, bf, cmds, arg, ret>>

\* The z-score and trend loop: it either annotates every record or raises,
\* and an exception ends the command before anything is written.
Annotate ==
    /\ pc = "annotate"
    /\ IF AnnotateRaises(result_metrics, DOMAIN full_history)
       THEN pc' = "crashed" /\ UNCHANGED result_metrics
       ELSE /\ pc' = "write_parts"
            /\ result_metrics' = Annotated(result_metrics, DOMAIN full_history)
    /\ UNCHANGED <<index, parts, year, market, existing, errors, todo, full_history,
                   dep_read, bf, cmds, arg, ret>>

\* The per-category files, each replaced whole.
WriteParts ==
    /\ pc = "write_parts"
    /\ parts' = CategoryFiles(result_metrics)
    /\ pc' = "write_index"
    /\ UNCHANGED <<index, year, market, existing, result_metrics, errors, todo,
                   full_history, dep_read, bf, cmds, arg, ret>>

\* metrics.json, replaced whole.
WriteIndex ==
    /\ pc = "write_index"
    /\ index' = IndexFile(result_metrics)
    /\ pc' = "done"
    /\ UNCHANGED <<parts, year, market, existing, result_metrics, errors, todo,
                   full_history, dep_read, bf, cmds, arg, ret>>

\* backfill_from_csv up to and including the write of the category file.
Backfill(metric_id, csv) ==
    /\ Stopped
    /\ cmds < MaxCommands
    /\ cmds' = cmds + 1
    /\ market' = NoMarket
    /\ existing' = EmptyDict
    /\ result_metrics' = EmptyDict
    /\ errors' = <<>>
    /\ todo' = {}
    /\ full_history' = EmptyDict
    /\ dep_read' = EmptyDict
    /\ IF BackfillCheck(metric_id, csv) # "ok"
       THEN /\ pc' = "fatal"
            /\ bf' = [status |-> BackfillCheck(metric_id, csv), metric_id |-> metric_id,
                      csv |-> csv, new_count |-> 0, replaced_count |-> 0]
            /\ UNCHANGED parts
       ELSE LET merged == BackfillMerge(parts, metric_id, csv)
            IN  /\ pc' = "bf_index"
                /\ bf' = [status |-> "ok", metric_id |-> metric_id, csv |-> csv,
                          new_count |-> merged.new_count,
                          replaced_count |-> merged.replaced_count]
                /\ parts' = BackfillWrite(parts, metric_id, csv, year)
    /\ UNCHANGED <<index, year, arg, ret>>

\* backfill_from_csv, lines 1109-1119: the index entry of the metric.
BackfillIndex ==
    /\ pc = "bf_index"
    /\ index' = Update(index,
                       (bf.metric_id :>
                           Slim(parts[_category_for_metric(bf.metric_id)][bf.metric_id])))
    /\ pc' = "done"
    /\ UNCHANGED <<parts, year, market, existing, result_metrics, errors, todo,
                   full_history, dep_read, bf, cmds, arg, ret>>

\* The process is killed between the two writes.
BackfillInterrupted ==
    /\ pc = "bf_index"
    /\ pc' = "crashed"
    /\ UNCHANGED <<index, parts, year, market, existing, result_metrics, errors, todo,
                   full_history, dep_read, bf, cmds, arg, ret>>

Next ==
    \/ StartRun
    \/ \E m \in MetricIds : Phase1Step(m)
    \/ \E m \in MetricIds : Phase2Step(m)
    \/ Annotate
    \/ WriteParts
    \/ WriteIndex
    \/ \E metric_id \in BackfillTargets, csv \in CsvFiles : Backfill(metric_id, csv)
    \/ BackfillIndex
    \/ BackfillInterrupted

Spec == Init /\ [][Next]_vars

-----------------------------------------------------------------------------
(* Properties of a full run *)

\* The first loop run in the order of METRICS from an empty map.
RECURSIVE Phase1From(_, _, _, _, _)
Phase1From(rm, i, ex, mkt, yr) ==
    IF i > Len(MetricOrder) THEN rm
    ELSE Phase1From(Phase1Map(rm, MetricOrder[i], ex, mkt, yr), i + 1, ex, mkt, yr)

Phase1InOrder == Phase1From(EmptyDict, 1, existing, market, year)

InRun == pc \in {"phase1", "phase2", "annotate", "write_parts", "write_index"}

\* C1: a full run carries the persisted record of every manual metric over
\* unchanged, history included: when the run writes the category files, each
\* manual metric that had a record in the index and a history in its category
\* file has the same history in the file written.
C1_ManualCarriedOver ==
    [][pc = "write_parts" =>
          \A cat \in Categories : \A m \in ManualIds \cap DOMAIN parts[cat] :
              (m \in DOMAIN existing /\ Has(parts[cat][m], "history"))
                  => /\ m \in DOMAIN parts'[cat]
                     /\ Has(parts'[cat][m], "history")
                     /\ parts'[cat][m].history = parts[cat][m].history]_vars

\* C3: a derived metric is evaluated only when the first loop has settled
\* every phase-1 metric, and the dependency entries it looked up are those of
\* the completed phase-1 map, which stay as they were read.
C3_PhaseBarrier ==
    \A m \in DOMAIN dep_read :
        /\ todo = {}
        /\ pc \in {"phase2", "annotate"} =>
              LET in_order == Phase1InOrder
              IN  \A i \in DOMAIN dep_read[m] :
                      /\ dep_read[m][i] = Lookup(in_order, METRICS[m].derive_from[i])
                      /\ dep_read[m][i] = Lookup(result_metrics, METRICS[m].derive_from[i])

\* A derived metric has been evaluated against a map holding a fresh record
\* of one dependency and the carried-over record of the other.
C3_Witness ==
    /\ pc = "annotate"
    /\ "cn_us_spread" \in DOMAIN dep_read
    /\ "us_10y" \in DOMAIN full_history
    /\ dep_read["cn_us_spread"][1] # Absent
    /\ dep_read["cn_us_spread"][2] = result_metrics["us_10y"]

\* C4: whatever the order in which the phase-1 metrics were evaluated, every
\* entry settled so far is the one the order of METRICS gives, and the map
\* the first loop ends with is the map that order gives.
C4_OrderIndependent ==
    (pc \in {"phase1", "phase2"} /\ dep_read = EmptyDict) =>
        LET in_order == Phase1InOrder
        IN  /\ \A m \in (MetricIds \ DerivedIds) \ todo :
                   Lookup(result_metrics, m) = Lookup(in_order, m)
            /\ pc = "phase2" => result_metrics = in_order

\* The first metric of METRICS is evaluated last, after a fresh record and a
\* carried-over one have been stored.
C4_Witness ==
    /\ pc = "phase1"
    /\ todo = {"us_10y"}
    /\ "gsci_spy_ratio" \in DOMAIN full_history
    /\ "cn_10y" \in DOMAIN existing
    /\ SourceHistory(METRICS["us_10y"], market) # <<>>

DepMissing(entry) ==
    entry = Absent \/ ~Has(entry, "history") \/ entry.history = <<>>

C10_SignalsFromFullHistory ==
    pc \in {"write_parts", "write_index", "done", "crashed"} =>
        \A m \in DOMAIN full_history :
            Len(full_history[m]) >= 4 =>
                /\ Has(result_metrics[m], "zscore")
                /\ Has(result_metrics[m], "signal")
                /\ result_metrics[m].zscore = compute_zscore(full_history[m], "list").zscore
                /\ result_metrics[m].signal = compute_zscore(full_history[m], "list").signal
                /\ Get(result_metrics[m], "trend", "none")
                       = Get(compute_trend(full_history[m], "list"), "trend", "none")

\* The valid rows of a CSV file, counted row by row.
ValidRowCount(csv) == Cardinality({i \in DOMAIN csv : RowValid(csv[i])})

StoredHistory(files, metric_id) ==
    Get(Get(files[_category_for_metric(metric_id)], metric_id, EmptyDict), "history", <<>>)

\* C2: a backfill of the same metric from the same rows, applied to the state
\* the first successful one left, leaves the stored history as it was, reports
\* no new row and counts every valid row as replaced.
C2_BackfillIdempotent ==
    [][(/\ Stopped
        /\ bf.status = "ok"
        /\ pc' = "bf_index"
        /\ bf'.metric_id = bf.metric_id
        /\ bf'.csv = bf.csv)
       => /\ StoredHistory(parts', bf.metric_id) = StoredHistory(parts, bf.metric_id)
          /\ bf'.new_count = 0
          /\ bf'.replaced_count = ValidRowCount(bf.csv)]_vars

\* The two-row file applied twice to china_pmi, from empty files.
C2_Witness ==
    /\ pc = "done"
    /\ cmds = 2
    /\ bf.status = "ok"
    /\ bf.metric_id = "china_pmi"
    /\ bf.csv = <<Row(400, 5), Row(350, 4)>>
    /\ bf.new_count = 0
    /\ bf.replaced_count = 2
    /\ StoredHistory(parts, "china_pmi") = <<(<<350, 4>>), <<400, 5>>>>


\* An unknown id, a metric that is not manual, one in no category, or a file
\* without a valid row.
FatalInput(metric_id, csv) ==
    \/ metric_id \notin DOMAIN METRICS
    \/ METRICS[metric_id].source_type # "manual"
    \/ \A cat \in Categories : metric_id \notin CategoryIds(cat)
    \/ ValidRowCount(csv) = 0

\* C12: a backfill with a fatal input ends as fatal and writes nothing: the
\* category files and the index are as they were.
C12_FatalWritesNothing ==
    [][(/\ Stopped
        /\ pc' \in {"fatal", "bf_index"}
        /\ FatalInput(bf'.metric_id, bf'.csv))
       => /\ pc' = "fatal"
          /\ parts' = parts
          /\ index' = index]_vars

\* A file without a valid row, given for a metric that has a stored history.
C12_Witness ==
    /\ pc = "fatal"
    /\ bf.status = "no valid rows"
    /\ bf.metric_id = "china_pmi"
    /\ StoredHistory(parts, "china_pmi") # <<>>
    /\ "china_pmi" \in DOMAIN index

-----------------------------------------------------------------------------
(* The functions on their own: the input is drawn in the initial state and  *)
(* one step applies the function.                                           *)

files == <<index, parts, market, existing, result_metrics, errors, todo,
           full_history, dep_read, bf, cmds>>

\* Days 0..MaxDay of the series given to the ratios.
MaxDay == 2

\* Closing prices: 1/3 and 2/3 need rounding.
Prices == {1, 2, 3}

\* Every date-ascending series over the days d..MaxDay.
RECURSIVE SeriesFrom(_)
SeriesFrom(d) ==
    IF d > MaxDay THEN {<<>>}
    ELSE SeriesFrom(d + 1)
         \cup {<<(<<d, v>>)>> \o s : v \in Prices, s \in SeriesFrom(d + 1)}

RatioTickers == {"GSG", "SPY"}

\* The two sides of a ratio: <<basket_a, basket_b>>.
BasketPairs ==
    { <<(<<"GSG">>), <<"SPY">>>>, <<(<<"SPY">>), <<"GSG">>>>, <<(<<"GSG">>), <<"GSG">>>>,
      <<(<<"GSG", "SPY">>), <<"SPY">>>> }

RatioInit ==
    /\ NoFiles
    /\ pc = "call"
    /\ year = BaseYear + 1
    /\ \E pair \in BasketPairs, mkt \in [RatioTickers -> SeriesFrom(0)] :
          arg = [basket_a |-> pair[1], basket_b |-> pair[2], mkt |-> mkt]
    /\ ret = NoArg

\* compute_ratio on the first ticker of each side.
CallRatio ==
    /\ pc = "call"
    /\ ret' = compute_ratio(arg.basket_a[1], arg.basket_b[1], arg.mkt)
    /\ pc' = "ratio"
    /\ UNCHANGED <<files, year, arg>>

CallBasketRatio ==
    /\ pc = "call"
    /\ ret' = compute_basket_ratio(arg.basket_a, arg.basket_b, arg.mkt)
    /\ pc' = "basket"
    /\ UNCHANGED <<files, year, arg>>

RatioNext == CallRatio \/ CallBasketRatio

SpecRatio == RatioInit /\ [][RatioNext]_vars

SingleBaskets == Len(arg.basket_a) = 1 /\ Len(arg.basket_b) = 1

SeriesA == arg.mkt[arg.basket_a[1]]

SeriesB == arg.mkt[arg.basket_b[1]]

ValueAt(series, d) == series[CHOOSE i \in DOMAIN series : series[i][1] = d][2]

-----------------------------------------------------------------------------
(* The alignment of a derived metric on its own *)

DeriveDates == {0, 1, 5, 9, 16}

\* Value patterns of the two input histories.
MaxPattern == 2

FirstValue(d, k) == 20000 + ((d * k) % 5) * 137

SecondValue(d, k) == 45000 - (((d + 2) * k) % 3) * 1000

DeriveInit ==
    /\ NoFiles
    /\ pc = "call"
    /\ year = BaseYear + 1
    /\ \E da \in SUBSET DeriveDates \ {{}}, db \in SUBSET DeriveDates \ {{}},
          k \in 1..MaxPattern, op \in {"subtract_bp", "subtract", "ratio"} :
          arg = <<[d \in da |-> FirstValue(d, k)], [d \in db |-> SecondValue(d, k)], op>>
    /\ ret = NoArg

CallDerive ==
    /\ pc = "call"
    /\ ret' = derive_history(arg[1], arg[2], arg[3])
    /\ pc' = "derived"
    /\ UNCHANGED <<files, year, arg>>

DeriveNext == CallDerive

SpecDerive == DeriveInit /\ [][DeriveNext]_vars

\* The least number of days from d to a date of `other`.
MinDistance(other, d) ==
    CHOOSE n \in {Abs(x - d) : x \in DOMAIN other} :
        \A x \in DOMAIN other : Abs(x - d) >= n

\* C5: the output has one point at each date of the base history (the one
\* with no more points) whose nearest date in the other history is at most 7
\* days away, and at no other date; with subtract_bp the value is
\* (first - second) * 100 to one decimal, the other value taken at a nearest
\* date.
C5_AlignWithinTolerance ==
    pc = "derived" =>
        LET hist_a == arg[1]
            hist_b == arg[2]
            base_is_a == Cardinality(DOMAIN hist_a) <= Cardinality(DOMAIN hist_b)
            base == IF base_is_a THEN hist_a ELSE hist_b
            other == IF base_is_a THEN hist_b ELSE hist_a
        IN  /\ {ret[i][1] : i \in DOMAIN ret}
                 = {d \in DOMAIN base : MinDistance(other, d) <= 7}
            /\ \A i \in 1..(Len(ret) - 1) : ret[i][1] < ret[i + 1][1]
            /\ arg[3] = "subtract_bp" =>
                 \A i \in DOMAIN ret :
                    \E c \in DOMAIN other :
                       LET d == ret[i][1]
                           first == IF base_is_a THEN hist_a[d] ELSE hist_a[c]
                           second == IF base_is_a THEN hist_b[c] ELSE hist_b[d]
                       IN  /\ Abs(c - d) = MinDistance(other, d)
                           /\ ret[i][2] % (Scale \div 10) = 0
                           /\ 2 * Abs(ret[i][2] - (first - second) * 100) <= Scale \div 10

\* 2.0 and 4.5 one day apart give -250.0, and a base date 11 days from the
\* nearest other date is dropped.
C5_Witness ==
    /\ pc = "derived"
    /\ arg[3] = "subtract_bp"
    /\ DOMAIN arg[1] = {0, 16}
    /\ DOMAIN arg[2] = {1, 5}
    /\ arg[1][0] = 2 * Scale
    /\ arg[2][1] = 45 * (Scale \div 10)
    /\ ret = <<(<<0, -250 * Scale>>)>>

\* The value v is op applied to a_val on the left and b_val on the right:
\* a_val - b_val, or that times 100 to one decimal, or a_val / b_val to four
\* decimals.
AppliedTo(op, v, a_val, b_val) ==
    IF op = "subtract" THEN v = a_val - b_val
    ELSE IF op = "subtract_bp"
    THEN /\ v % (Scale \div 10) = 0
         /\ 2 * Abs(v - (a_val - b_val) * 100) <= Scale \div 10
    ELSE b_val # 0 /\ 2 * Abs(v * b_val - a_val * Scale) <= Abs(b_val)

\* C22: at every output date the operator is applied with a value of the
\* first dependency on the left and a value of the second on the right,
\* whichever of the two is the base: the base side is taken at the output
\* date and the other side at a nearest date.
C22_OperandsInDeriveFromOrder ==
    pc = "derived" =>
        LET hist_a == arg[1]
            hist_b == arg[2]
            base_is_a == Cardinality(DOMAIN hist_a) <= Cardinality(DOMAIN hist_b)
            other == IF base_is_a THEN hist_b ELSE hist_a
        IN  \A i \in DOMAIN ret :
                LET d == ret[i][1]
                IN  \E c \in DOMAIN other :
                        /\ Abs(c - d) = MinDistance(other, d)
                        /\ AppliedTo(arg[3], ret[i][2],
                                     IF base_is_a THEN hist_a[d] ELSE hist_a[c],
                                     IF base_is_a THEN hist_b[c] ELSE hist_b[d])

\* The second dependency is the base, with dates 1 and 16 against 0, 5 and 9
\* of the first: the differences are first minus second, both below zero.
C22_Witness ==
    /\ pc = "derived"
    /\ arg[3] = "subtract"
    /\ DOMAIN arg[1] = {0, 5, 9}
    /\ DOMAIN arg[2] = {1, 16}
    /\ ret = <<(<<1, arg[1][0] - arg[2][1]>>), <<16, arg[1][9] - arg[2][16]>>>>
    /\ ret[1][2] < 0 /\ ret[2][2] < 0

\* The dates of `other` at the least distance from d.
Nearest(other, d) ==
    {c \in DOMAIN other : Abs(c - d) = MinDistance(other, d)}

\* C23: when two dates of the other history are equally close to an output
\* date, the value of the earlier one is used: every output value is the
\* operator applied with the other side taken at the earliest nearest date,
\* so the output is a function of the two histories.
C23_TieTakesEarlier ==
    pc = "derived" =>
        LET hist_a == arg[1]
            hist_b == arg[2]
            base_is_a == Cardinality(DOMAIN hist_a) <= Cardinality(DOMAIN hist_b)
            other == IF base_is_a THEN hist_b ELSE hist_a
        IN  \A i \in DOMAIN ret :
                LET d == ret[i][1]
                    c == CHOOSE x \in Nearest(other, d) :
                             \A y \in Nearest(other, d) : x <= y
                IN  AppliedTo(arg[3], ret[i][2],
                              IF base_is_a THEN hist_a[d] ELSE hist_a[c],
                              IF base_is_a THEN hist_b[c] ELSE hist_b[d])

\* The base date 5 is 4 days from both 1 and 9 of the first history, which
\* has different values there: the value at 1 is the one subtracted from.
C23_Witness ==
    /\ pc = "derived"
    /\ arg[3] = "subtract"
    /\ DOMAIN arg[1] = {1, 9}
    /\ DOMAIN arg[2] = {5}
    /\ arg[1][1] # arg[1][9]
    /\ Nearest(arg[1], 5) = {1, 9}
    /\ ret = <<(<<5, arg[1][1] - arg[2][5]>>)>>

-----------------------------------------------------------------------------
(* downsample_weekly on its own *)

\* First days 0..MaxStart; lengths up to WeekLimit + LongExtra.
MaxStart == 6

LongExtra == 2

\* The date of the i-th point: every day, Monday-to-Friday style (5 days on,
\* 2 off), or every third day.
DateAt(kind, start, i) ==
    IF kind = "daily" THEN start + (i - 1)
    ELSE IF kind = "business" THEN start + 7 * ((i - 1) \div 5) + ((i - 1) % 5)
    ELSE start + 3 * (i - 1)

Sampled(kind, start, n, k) ==
    [i \in 1..n |-> <<DateAt(kind, start, i), 1 + ((i * k) % 3)>>]

DownLengths == {0, 3, WeekLimit - 1, WeekLimit} \cup {WeekLimit + e : e \in 1..LongExtra}

DownInit ==
    /\ NoFiles
    /\ pc = "call"
    /\ year = BaseYear + 1
    /\ \E kind \in {"daily", "business", "sparse"}, start \in 0..MaxStart,
          n \in DownLengths, k \in 1..2 :
          arg = Sampled(kind, start, n, k)
    /\ ret = NoArg

CallDownsample ==
    /\ pc = "call"
    /\ ret' = downsample_weekly(arg)
    /\ pc' = "downsampled"
    /\ UNCHANGED <<files, year, arg>>

DownNext == CallDownsample

SpecDown == DownInit /\ [][DownNext]_vars

\* Monday of the calendar week of day d.
MondayOf(d) == d - Weekday(d)

\* C9: an input of at most 260 points is returned as it is; a longer,
\* date-ascending one gives exactly one point per ISO (year, week) of the
\* input, the last input point of that week, in ascending date order, so the
\* last output point is the last input point and there are no more points
\* than calendar weeks from the first date to the last.
C9_Downsample ==
    pc = "downsampled" =>
        IF Len(arg) <= 260 THEN ret = arg
        ELSE /\ \A i \in DOMAIN arg :
                   LET same == {j \in DOMAIN ret :
                                   IsoCalendar(ret[j][1]) = IsoCalendar(arg[i][1])}
                   IN  /\ Cardinality(same) = 1
                       /\ (i = Len(arg) \/ IsoCalendar(arg[i + 1][1]) # IsoCalendar(arg[i][1]))
                              => \A j \in same : ret[j] = arg[i]
             /\ \A j \in DOMAIN ret : \E i \in DOMAIN arg : ret[j] = arg[i]
             /\ \A j \in 1..(Len(ret) - 1) : ret[j][1] < ret[j + 1][1]
             /\ ret[Len(ret)] = arg[Len(arg)]
             /\ Len(ret) <= ((MondayOf(arg[Len(arg)][1]) - MondayOf(arg[1][1])) \div 7) + 1

\* More than 260 points, several of them in the last week, going past the
\* end of an ISO year.
C9_Witness ==
    /\ pc = "downsampled"
    /\ Len(arg) > 260
    /\ Len(ret) < Len(arg)
    /\ IsoCalendar(arg[Len(arg) - 1][1]) = IsoCalendar(arg[Len(arg)][1])
    /\ IsoCalendar(arg[Len(arg)][1])[1] > IsoCalendar(arg[1][1])[1]

-----------------------------------------------------------------------------
(* compute_ytd_change on its own *)

\* 2024-01-01, 2024-02-01, 2024-12-31, 2025-01-01, 2025-02-04.
YtdDates == {0, 31, 365, 366, 400}

\* 0, 70.0033, 100, 110.
YtdValues == {0, 700033, 100 * Scale, 110 * Scale}

\* Every date-ascending series over the dates of S.
RECURSIVE SeriesOver(_)
SeriesOver(S) ==
    IF S = {} THEN {<<>>}
    ELSE LET d == CHOOSE x \in S : \A y \in S : y <= x
             shorter == SeriesOver(S \ {d})
         IN  shorter \cup {Append(h, <<d, v>>) : h \in shorter, v \in YtdValues}

YtdInit ==
    /\ NoFiles
    /\ pc = "call"
    /\ year \in Years
    /\ \E data \in SeriesOver(YtdDates), mode \in {"pct", "bp"} : arg = <<data, mode>>
    /\ ret = NoArg

CallYtd ==
    /\ pc = "call"
    /\ ret' = compute_ytd_change(arg[1], arg[2], year)
    /\ pc' = "ytd"
    /\ UNCHANGED <<files, year, arg>>

YtdNext == CallYtd

SpecYtd == YtdInit /\ [][YtdNext]_vars

\* The points of the argument dated on or after January 1 of the current year.
ThisYear == {i \in DOMAIN arg[1] : YearOf(arg[1][i][1]) >= year}

\* C11: the start value is that of the earliest point dated on or after
\* January 1 of the current year; without such a point, or with a start value
\* of zero, nothing is returned; otherwise the change is (latest - start) * 100
\* to the nearest integer in basis-point mode and (latest - start) / |start|
\* * 100 to one decimal in percentage mode.
C11_YtdChange ==
    pc = "ytd" =>
        IF ThisYear = {} THEN ret = EmptyDict
        ELSE LET i == CHOOSE x \in ThisYear : \A y \in ThisYear : x <= y
                 start == arg[1][i][2]
                 latest == arg[1][Len(arg[1])][2]
             IN  IF start = 0 THEN ret = EmptyDict
                 ELSE IF arg[2] = "bp"
                      THEN /\ DOMAIN ret = {"change_ytd_bp"}
                           /\ 2 * Abs(ret.change_ytd_bp * Scale - (latest - start) * 100)
                                  <= Scale
                      ELSE /\ DOMAIN ret = {"change_ytd_pct"}
                           /\ 2 * Abs(ret.change_ytd_pct * Abs(start)
                                          - (latest - start) * 1000) <= Abs(start)

\* [(2024-01-01, 100), (2024-02-01, 110)] in 2024, percentage mode: 10.0.
C11_Witness ==
    /\ pc = "ytd"
    /\ year = BaseYear
    /\ arg = <<(<<(<<0, 100 * Scale>>), <<31, 110 * Scale>>>>), "pct">>
    /\ ret = [change_ytd_pct |-> 100]

-----------------------------------------------------------------------------
(* Properties of the commands, continued *)

\* The rows of a CSV file that are valid, by their position in the file.
ValidRows(csv) == {i \in DOMAIN csv : RowValid(csv[i])}

RowDate(csv, i) == csv[i][1][2]

RowValue(csv, i) == csv[i][2][2]

\* A step that is a backfill ending in the write of the category file.
BackfillDone == Stopped /\ pc' = "bf_index"

\* The merged history is the stored one with the valid rows upserted by date:
\* the dates are those stored and those of the rows, one point each, a row
\* date has the value of its last row and any other stored point is kept.
UpsertByDate(old, new, csv) ==
    /\ Dates(new) = Dates(old) \cup {RowDate(csv, i) : i \in ValidRows(csv)}
    /\ Len(new) = Cardinality(Dates(new))
    /\ \A i \in ValidRows(csv) :
           (\A j \in ValidRows(csv) : RowDate(csv, j) = RowDate(csv, i) => j <= i)
               => ValueAt(new, RowDate(csv, i)) = RowValue(csv, i)
    /\ \A k \in DOMAIN old :
           (\A i \in ValidRows(csv) : RowDate(csv, i) # old[k][1])
               => \E n \in DOMAIN new : new[n] = old[k]

BackfilledRecord == parts[_category_for_metric(bf.metric_id)][bf.metric_id]

\* C15: a backfill writes the category file first, leaving the index as it
\* was, and the index afterwards, leaving the category files as they were;
\* when it has completed, the index entry of the metric is the category
\* file's entry without the history field.
C15_PartitionThenIndex ==
    /\ [][/\ BackfillDone
             => /\ index' = index
                /\ bf'.metric_id \in DOMAIN parts'[_category_for_metric(bf'.metric_id)]
          /\ (pc = "bf_index" /\ pc' = "done") => parts' = parts]_vars
    /\ []((pc = "done" /\ bf.status = "ok")
             => /\ bf.metric_id \in DOMAIN index
                /\ DOMAIN index[bf.metric_id] = DOMAIN BackfilledRecord \ {"history"}
                /\ \A f \in DOMAIN index[bf.metric_id] :
                       index[bf.metric_id][f] = BackfilledRecord[f])

\* A completed backfill of two points: the index entry has the value and the
\* direction of the record and no history.
C15_Witness ==
    /\ pc = "done"
    /\ bf.status = "ok"
    /\ Len(BackfilledRecord.history) = 2
    /\ ~Has(index[bf.metric_id], "history")
    /\ index[bf.metric_id].direction = "up"

\* The index entry of a manual metric is stale: its category file has a
\* record with a history that the index entry is not the copy of, as a
\* backfill interrupted between its two writes leaves it.
StaleIndex(cat, m) ==
    /\ m \in ManualIds \cap DOMAIN parts[cat]
    /\ Has(parts[cat][m], "history")
    /\ parts[cat][m].history # <<>>
    /\ (m \notin DOMAIN index \/ index[m] # Slim(parts[cat][m]))

\* C16: the full run after an interrupted backfill brings the index up to
\* date: the run writes the category file with the backfilled record still in
\* it, and the index with that record without its history.
C16_RunRepairsIndex ==
    [][\A cat \in Categories : \A m \in DOMAIN parts[cat] :
          /\ (pc = "write_parts" /\ StaleIndex(cat, m))
                => /\ m \in DOMAIN parts'[cat]
                   /\ parts'[cat][m] = parts[cat][m]
          /\ (pc = "write_index" /\ Has(parts[cat][m], "history"))
                => /\ m \in DOMAIN index'
                   /\ index'[m] = Slim(parts[cat][m])]_vars

\* The last command was a full run and it has written both outputs.
RunCompleted == pc = "done" /\ bf.status = "none"

Listed(cat, m) ==
    \E i \in DOMAIN CATEGORY_MAP :
        CATEGORY_MAP[i][1] = cat /\ \E j \in DOMAIN CATEGORY_MAP[i][2] :
                                        CATEGORY_MAP[i][2][j] = m

\* C17: when a full run has completed, each category file holds exactly the
\* records of the result map whose id the category lists, an id without a
\* record or in no category is in no file, and the index holds every record
\* of the result map without its history field and nothing else.
C17_OutputsFromResultMap ==
    RunCompleted =>
        /\ \A cat \in Categories :
              /\ DOMAIN parts[cat] = {m \in DOMAIN result_metrics : Listed(cat, m)}
              /\ \A m \in DOMAIN parts[cat] : parts[cat][m] = result_metrics[m]
        /\ DOMAIN index = DOMAIN result_metrics
        /\ \A m \in DOMAIN index :
              /\ DOMAIN index[m] = DOMAIN result_metrics[m] \ {"history"}
              /\ \A f \in DOMAIN index[m] : index[m][f] = result_metrics[m][f]

\* A completed run with fresh records in two categories, a manual
\* placeholder and a derived metric without a record.
C17_Witness ==
    /\ RunCompleted
    /\ {"us_10y", "gsci_spy_ratio"} \subseteq DOMAIN full_history
    /\ "china_pmi" \in DOMAIN result_metrics
    /\ "cn_us_spread" \notin DOMAIN result_metrics
    /\ Len(parts["rates"]["us_10y"].history) = 3

\* The phase-1 metrics with an adapter, i.e. neither manual nor deferred.
AdapterIds ==
    {m \in MetricIds : METRICS[m].source_type # "manual" /\ ~Deferred(METRICS[m])}

\* C18: when the adapter of a phase-1 metric returns nothing, the metric is
\* on the failure list and the category file the run writes has the record
\* that was stored for it, as it was, or none when none was stored; the
\* metrics whose adapter returned data are written with their fresh records.
C18_AdapterFailureFallsBack ==
    [][pc = "write_parts" =>
          \A m \in AdapterIds :
              LET cat == _category_for_metric(m)
              IN  IF SourceHistory(METRICS[m], market) = <<>>
                  THEN /\ m \in Range(errors)
                       /\ IF m \in DOMAIN parts[cat]
                          THEN m \in DOMAIN parts'[cat] /\ parts'[cat][m] = parts[cat][m]
                          ELSE m \notin DOMAIN parts'[cat]
                  ELSE /\ m \in DOMAIN parts'[cat]
                       /\ parts'[cat][m] = result_metrics[m]
                       /\ parts'[cat][m].history
                              = downsample_weekly(SourceHistory(METRICS[m], market))]_vars

\* The dates of a history rise strictly from each point to the next.
Ascending(history) ==
    \A i \in 1..Len(history) - 1 : history[i][1] < history[i + 1][1]

OnlyEntryChanged(old, new, metric_id) ==
    /\ DOMAIN new = DOMAIN old \cup {metric_id}
    /\ \A other \in DOMAIN old \ {metric_id} : new[other] = old[other]

\* C20: a successful backfill of a metric changes only that metric's entry:
\* the write of its category file leaves every other entry of the file, every
\* other category file and the index as they were, and the write of the index
\* leaves every other entry of the index and all category files as they were.
C20_BackfillTouchesOnlyItsMetric ==
    [][/\ BackfillDone =>
              LET cat_id == _category_for_metric(bf'.metric_id)
              IN  /\ index' = index
                  /\ \A cat \in Categories \ {cat_id} : parts'[cat] = parts[cat]
                  /\ OnlyEntryChanged(parts[cat_id], parts'[cat_id], bf'.metric_id)
       /\ (pc = "bf_index" /\ pc' = "done") =>
              /\ parts' = parts
              /\ OnlyEntryChanged(index, index', bf.metric_id)]_vars

\* cn_10y was backfilled into the rates file that a run had written with the
\* 3-point history of us_10y beside it; both files now have both metrics.
C20_Witness ==
    /\ pc = "done" /\ bf.status = "ok" /\ bf.metric_id = "cn_10y"
    /\ {"us_10y", "cn_10y"} \subseteq DOMAIN parts["rates"]
    /\ {"us_10y", "cn_10y"} \subseteq DOMAIN index
    /\ "history" \in DOMAIN parts["rates"]["us_10y"]
    /\ Len(parts["rates"]["us_10y"].history) = 3
    /\ Len(parts["rates"]["cn_10y"].history) = 2
    /\ index["cn_10y"].value = parts["rates"]["cn_10y"].value

-----------------------------------------------------------------------------
(* One backfill of china_pmi onto a record stored before *)

\* n points ten days apart from 2025-02-14, values cycling with stride k.
StoredSeries(n, k) == [i \in 1..n |-> <<390 + 10 * i, 1 + ((i * k) % 3)>>]

\* Value patterns of the stored history.
MaxStoredPattern == 2

\* The stored histories: none, too short for a z-score, long enough for a
\* z-score, and one point short of a trend.
StoredLengths == {0, 3, 8}

\* Rows before, inside and after the stored dates.
BackfillRows == {Row(d, v) : d \in {350, 420, 500}, v \in {0, 2, 9}}

BackfillCsvFiles ==
    {<<r>> : r \in BackfillRows}
        \cup {<<pair[1], pair[2]>> :
                  pair \in {x \in BackfillRows \X BackfillRows : x[1] # x[2]}}

\* The files after an earlier backfill of `history` ("full"), and after a
\* full run that followed it, which leaves the record without its history in
\* the category file too ("slim").
StoredFiles(history, shape) ==
    LET rec == BackfillRecord(METRICS["china_pmi"], history, BaseYear + 1)
        kept == IF shape = "slim" THEN Slim(rec) ELSE rec
    IN  [index |-> ("china_pmi" :> Slim(rec)),
         parts |-> [cat \in Categories |->
                       IF cat = "china" THEN ("china_pmi" :> kept) ELSE EmptyDict]]

OneBackfillInit ==
    /\ \E n \in StoredLengths, k \in 1..MaxStoredPattern, shape \in {"full", "slim"} :
          IF n = 0
          THEN index = EmptyDict /\ parts = [cat \in Categories |-> EmptyDict]
          ELSE /\ index = StoredFiles(StoredSeries(n, k), shape).index
               /\ parts = StoredFiles(StoredSeries(n, k), shape).parts
    /\ pc = "done"
    /\ year = BaseYear + 1
    /\ market = NoMarket
    /\ existing = EmptyDict
    /\ result_metrics = EmptyDict
    /\ errors = <<>>
    /\ todo = {}
    /\ full_history = EmptyDict
    /\ dep_read = EmptyDict
    /\ bf = NoBackfill
    /\ cmds = MaxCommands - 1
    /\ arg = NoArg
    /\ ret = NoArg

OneBackfillNext ==
    \/ \E csv \in BackfillCsvFiles : Backfill("china_pmi", csv)
    \/ BackfillIndex
    \/ BackfillInterrupted

SpecBackfill == OneBackfillInit /\ [][OneBackfillNext]_vars

AnnotationFields == {"change_ytd_pct", "change_ytd_bp", "zscore", "signal", "trend"}

\* C14: the record a successful backfill writes has the merged history's last
\* value, the direction of its last two points, and exactly the year-to-date
\* change, zscore, signal and trend of the merged history: no field of the
\* record stored before is left in it.
C14_AnnotationsFromMergedHistory ==
    (pc \in {"bf_index", "done", "crashed"} /\ bf.status = "ok") =>
        LET rec == parts[_category_for_metric(bf.metric_id)][bf.metric_id]
            h == rec.history
            n == Len(h)
            config == METRICS[bf.metric_id]
            annotations ==
                Update(Update(compute_ytd_change(h, Get(config, "change_mode", "pct"), year),
                              compute_zscore(h, "list")),
                       compute_trend(h, "list"))
        IN  /\ h # <<>>
            /\ rec.value = h[n][2]
            /\ rec.direction = IF n < 2 \/ h[n][2] = h[n - 1][2] THEN "flat"
                               ELSE IF h[n][2] > h[n - 1][2] THEN "up" ELSE "down"
            /\ DOMAIN rec \cap AnnotationFields = DOMAIN annotations
            /\ \A f \in DOMAIN annotations : rec[f] = annotations[f]
            /\ DOMAIN rec
                  = {"name", "value", "direction", "unit", "history", "source", "note"}
                       \cup DOMAIN annotations

\* The category file is written and the index not yet: the index still has
\* the stored record's year-to-date change, zscore and signal, and the new
\* record has none of them.
C14_Witness ==
    /\ pc = "bf_index"
    /\ bf.status = "ok"
    /\ "china_pmi" \in DOMAIN index
    /\ {"change_ytd_pct", "zscore", "signal"} \subseteq DOMAIN index["china_pmi"]
    /\ DOMAIN parts["china"]["china_pmi"] \cap AnnotationFields = {}

-----------------------------------------------------------------------------
(* The direction of a history, as a run and as a backfill compute it *)

MaxHistory == 3

DirectionValues == {0, 1, 2, 5}

\* Every history of at most MaxHistory points on consecutive days.
DirectionHistories ==
    UNION {[1..n -> DirectionValues] : n \in 0..MaxHistory}

DirectionInit ==
    /\ NoFiles
    /\ pc = "call"
    /\ year \in Years
    /\ \E vals \in DirectionHistories :
           arg = [i \in DOMAIN vals |-> <<YearStart(year) + i, vals[i]>>]
    /\ ret = NoArg

\* The direction of the same history by main (lines 828-831 and 914) and by
\* backfill_from_csv (lines 1069-1076).
CallDirection ==
    /\ pc = "call"
    /\ ret' = [run |-> RunDirection(arg), backfill |-> BackfillDirection(arg)]
    /\ pc' = "direction"
    /\ UNCHANGED <<files, year, arg>>

DirectionNext == CallDirection

SpecDirection == DirectionInit /\ [][DirectionNext]_vars

\* C21: a run and a backfill give the same direction to the same history:
\* "flat" with fewer than two points or with the last two values equal, "up"
\* when the last value is above the one before, "down" when it is below.
C21_SameDirection ==
    pc = "direction" =>
        LET n == Len(arg)
            expected == IF n < 2 \/ arg[n][2] = arg[n - 1][2] THEN "flat"
                        ELSE IF arg[n][2] > arg[n - 1][2] THEN "up" ELSE "down"
        IN  ret.run = expected /\ ret.backfill = expected

====
